---- MODULE Spec2Model ----
(***************************************************************************)
(* Model of mlvtool/ipynb_to_python.py: the command IPynbToPython.run, the *)
(* function export it calls, and the jinja filters registered by export    *)
(* (filter_no_effect, handle_params, extract_docstring_and_param,          *)
(* get_param_as_python_method_format).                                     *)
(*                                                                         *)
(* Python strings are sequences of characters (<<>> is '').  An optional   *)
(* command line value that was not given is the empty string "": the code  *)
(* only ever tests such values for truthiness (`x or y`, `not x`), and     *)
(* None and '' are both falsy.                                             *)
(***************************************************************************)
EXTENDS Integers, Sequences, FiniteSets, TLC

VARIABLES
    args,            \* the parsed command line (run, lines 116-125)
    defaultConf,     \* whether a default configuration file is found in the work directory
    work_directory,  \* run's local work_directory (line 126)
    conf,            \* run's local conf (line 128)
    output,          \* run's local output (line 133)
    fs,              \* the file system: existing directories and file contents
    fs0,             \* the file system when run was called
    pc,              \* position of the control flow in run / export
    exc,             \* the exception propagating out of run
    script,          \* export's local output_script (line 50)
    exportCalls,     \* number of calls of export
    convertCalls,    \* number of calls of exporter.from_filename
    convError,       \* the exception exporter.from_filename raised, if any
    fault,           \* whether the environment made an I/O call fail
    fn,              \* the filter function being called
    call,            \* the arguments of that call
    cells,           \* the (mutable) cell list passed to handle_params
    ret              \* the value the filter returned

vars == <<args, defaultConf, work_directory, conf, output, fs, fs0, pc, exc,
          script, exportCalls, convertCalls, convError, fault, fn, call, cells, ret>>

runVars == <<args, defaultConf, work_directory, conf, output, fs, fs0, exc,
             script, exportCalls, convertCalls, convError, fault>>

filterVars == <<fn, call, cells, ret>>

(***************************************************************************)
(* Bounds of the model.                                                    *)
(***************************************************************************)
MaxLen == 3      \* longest cell content given to filter_no_effect
MaxKeys == 2     \* longest ignore_keys list
MaxCells == 3    \* longest cell list given to handle_params
MaxDoc == 3      \* longest docstring (in tokens)

RECURSIVE SeqsUpTo(_, _)
SeqsUpTo(S, n) ==
    IF n = 0 THEN {<<>>}
    ELSE LET shorter == SeqsUpTo(S, n - 1)
         IN  shorter \cup {Append(s, x) : s \in {t \in shorter : Len(t) = n - 1}, x \in S}

(***************************************************************************)
(* Values.                                                                 *)
(***************************************************************************)
None == ""
Falsy(s) == s = None

Absent == "<absent>"
OldContent == "old"
NewScript == "new"
EmptyScript == ""
Scripts == {EmptyScript, NewScript}

Notebooks == {"nb1.ipynb", "nb2.ipynb"}

\* A path is its directory part and its file name: 'out.py' has the directory
\* part '' and 'gen/out.py' the directory part 'gen'.
BarePath == [dir |-> "", name |-> "out.py"]
SubPath == [dir |-> "gen", name |-> "out.py"]
NoPath == [dir |-> "", name |-> ""]
OutputArgs == {NoPath, BarePath, SubPath}

dirname(path) == path.dir

NoException == [type |-> "none", cause |-> "none"]
MlVToolException(cause) == [type |-> "MlVToolException", cause |-> cause]
OSError(cause) == [type |-> "OSError", cause |-> cause]

(***************************************************************************)
(* mlvtool.conf.conf: the configuration helpers run imports.               *)
(***************************************************************************)
ScriptDir == "scripts"
ConfFileName == ".mlvtools"

get_work_directory(notebook) == "top"

get_conf_file_default_path(wd) == IF defaultConf THEN ConfFileName ELSE None

\* The loaded configuration has a path exactly when a configuration file was
\* given or found.
load_conf_or_default(conf_path, wd) ==
    [path |-> conf_path, ignore_keys |-> <<>>]

get_script_output_path(notebook, c) ==
    [dir |-> ScriptDir, name |-> IF notebook = "nb1.ipynb" THEN "nb1.py" ELSE "nb2.py"]

Paths == {BarePath, SubPath} \cup {get_script_output_path(n, NoPath) : n \in Notebooks}
Dirs == {"gen", ScriptDir}

(***************************************************************************)
(* The file system.                                                        *)
(***************************************************************************)
exists(f, path) == path \in Paths /\ f.files[path] # Absent

FileSystems ==
    {f \in [dirs : SUBSET Dirs, files : [Paths -> {Absent, OldContent}]] :
        \A p \in Paths : f.files[p] # Absent => (p.dir = "" \/ p.dir \in f.dirs)}

IdleFilters ==
    /\ fn = "none"
    /\ call = <<>>
    /\ cells = <<>>
    /\ ret = <<>>

(***************************************************************************)
(* IPynbToPython.run                                                       *)
(***************************************************************************)
InitRun ==
    /\ args \in [force : BOOLEAN, output : OutputArgs, notebook : Notebooks,
                 working_directory : {None, "wd"}, conf_path : {None, "my.conf"}]
    /\ defaultConf \in BOOLEAN
    /\ fs \in FileSystems
    /\ fs0 = fs
    /\ work_directory = None
    /\ conf = [path |-> None, ignore_keys |-> <<>>]
    /\ output = NoPath
    /\ pc = "load_conf"
    /\ exc = NoException
    /\ script = EmptyScript
    /\ exportCalls = 0
    /\ convertCalls = 0
    /\ convError = "none"
    /\ fault = FALSE
    /\ IdleFilters

\* lines 126-128
Run_LoadConf ==
    /\ pc = "load_conf"
    /\ LET wd == IF ~Falsy(args.working_directory) THEN args.working_directory
                 ELSE get_work_directory(args.notebook)
           conf_path == IF ~Falsy(args.conf_path) THEN args.conf_path
                        ELSE get_conf_file_default_path(wd)
       IN  /\ work_directory' = wd
           /\ conf' = load_conf_or_default(conf_path, wd)
    /\ pc' = "check_output_param"
    /\ UNCHANGED <<args, defaultConf, output, fs, fs0, exc, script, exportCalls,
                   convertCalls, convError, fault, filterVars>>

OutputParamMissing_wrong_test == Falsy(conf.path) /\ args.output # NoPath

OutputParamMissing == Falsy(conf.path) /\ args.output = NoPath

\* lines 130-131
Run_CheckOutputParam ==
    /\ pc = "check_output_param"
    /\ IF OutputParamMissing
       THEN /\ exc' = MlVToolException("output mandatory")
            /\ pc' = "raised"
       ELSE /\ pc' = "resolve_output"
            /\ UNCHANGED exc
    /\ UNCHANGED <<args, defaultConf, work_directory, conf, output, fs, fs0, script,
                   exportCalls, convertCalls, convError, fault, filterVars>>

\* line 133
Run_ResolveOutput ==
    /\ pc = "resolve_output"
    /\ output' = IF args.output # NoPath THEN args.output
                 ELSE get_script_output_path(args.notebook, conf)
    /\ pc' = "check_exists"
    /\ UNCHANGED <<args, defaultConf, work_directory, conf, fs, fs0, exc, script,
                   exportCalls, convertCalls, convError, fault, filterVars>>

OutputExists_force_inverted == args.force /\ exists(fs, output)

OutputExistsNoForce == ~args.force /\ exists(fs, output)

\* lines 135-136
Run_CheckExists ==
    /\ pc = "check_exists"
    /\ IF OutputExistsNoForce
       THEN /\ exc' = MlVToolException("output exists")
            /\ pc' = "raised"
       ELSE /\ pc' = "call_export"
            /\ UNCHANGED exc
    /\ UNCHANGED <<args, defaultConf, work_directory, conf, output, fs, fs0, script,
                   exportCalls, convertCalls, convError, fault, filterVars>>

\* line 138: the call of export
Run_CallExport ==
    /\ pc = "call_export"
    /\ exportCalls' = exportCalls + 1
    /\ pc' = "convert"
    /\ UNCHANGED <<args, defaultConf, work_directory, conf, output, fs, fs0, exc, script,
                   convertCalls, convError, fault, filterVars>>

\* line 139, after export returned
Run_LogDone ==
    /\ pc = "log_done"
    /\ pc' = "done"
    /\ UNCHANGED <<args, defaultConf, work_directory, conf, output, fs, fs0, exc, script,
                   exportCalls, convertCalls, convError, fault, filterVars>>

(***************************************************************************)
(* export                                                                  *)
(***************************************************************************)
ConversionErrors == {"FileNotFoundError", "TemplateError", "FilterError"}

Reraise(e) == [type |-> e, cause |-> "none"]

\* lines 49-52: the conversion returns a script or raises; whatever it raises
\* is wrapped.
WrapConversionError(e) == MlVToolException(e)

Export_Convert ==
    /\ pc = "convert"
    /\ convertCalls' = convertCalls + 1
    /\ \/ \E s \in Scripts :
            /\ script' = s
            /\ pc' = "check_empty"
            /\ UNCHANGED <<exc, convError>>
       \/ \E e \in ConversionErrors :
            /\ convError' = e
            /\ exc' = WrapConversionError(e)
            /\ pc' = "raised"
            /\ UNCHANGED script
    /\ UNCHANGED <<args, defaultConf, work_directory, conf, output, fs, fs0,
                   exportCalls, fault, filterVars>>

never_empty(s) == FALSE

\* `not output_script`
ScriptIsEmpty(s) == s = EmptyScript

\* lines 54-56
Export_CheckEmpty ==
    /\ pc = "check_empty"
    /\ pc' = IF ScriptIsEmpty(script) THEN "log_done" ELSE "makedirs"
    /\ UNCHANGED <<args, defaultConf, work_directory, conf, output, fs, fs0, exc, script,
                   exportCalls, convertCalls, convError, fault, filterVars>>

\* line 57: makedirs(dirname(output_path), exist_ok=True).  os.makedirs('')
\* raises FileNotFoundError; an existing directory is accepted; creating the
\* directory may fail (PermissionError, ...).
Export_MakeDirs ==
    /\ pc = "makedirs"
    /\ LET d == dirname(output)
       IN  \/ /\ d = ""
              /\ exc' = OSError("makedirs: FileNotFoundError")
              /\ pc' = "raised"
              /\ UNCHANGED <<fs, fault>>
           \/ /\ d # ""
              /\ fs' = [fs EXCEPT !.dirs = @ \cup {d}]
              /\ pc' = "open"
              /\ UNCHANGED <<exc, fault>>
           \/ /\ d # ""
              /\ d \notin fs.dirs
              /\ exc' = OSError("makedirs: PermissionError")
              /\ fault' = TRUE
              /\ pc' = "raised"
              /\ UNCHANGED fs
    /\ UNCHANGED <<args, defaultConf, work_directory, conf, output, fs0, script,
                   exportCalls, convertCalls, convError, filterVars>>

\* line 58: open(output_path, 'w') creates or truncates the file, or fails.
Export_Open ==
    /\ pc = "open"
    /\ \/ /\ fs' = [fs EXCEPT !.files[output] = ""]
          /\ pc' = "write"
          /\ UNCHANGED <<exc, fault>>
       \/ /\ exc' = OSError("open: PermissionError")
          /\ fault' = TRUE
          /\ pc' = "raised"
          /\ UNCHANGED fs
    /\ UNCHANGED <<args, defaultConf, work_directory, conf, output, fs0, script,
                   exportCalls, convertCalls, convError, filterVars>>

\* line 59: fd.write(output_script), then the file is closed.
Export_Write ==
    /\ pc = "write"
    /\ \/ /\ fs' = [fs EXCEPT !.files[output] = script]
          /\ pc' = "log_done"
          /\ UNCHANGED <<exc, fault>>
       \/ /\ exc' = OSError("write: ENOSPC")
          /\ fault' = TRUE
          /\ pc' = "raised"
          /\ UNCHANGED fs
    /\ UNCHANGED <<args, defaultConf, work_directory, conf, output, fs0, script,
                   exportCalls, convertCalls, convError, filterVars>>

NextRun ==
    \/ Run_LoadConf
    \/ Run_CheckOutputParam
    \/ Run_ResolveOutput
    \/ Run_CheckExists
    \/ Run_CallExport
    \/ Run_LogDone
    \/ Export_Convert
    \/ Export_CheckEmpty
    \/ Export_MakeDirs
    \/ Export_Open
    \/ Export_Write

Spec == InitRun /\ [][NextRun]_vars

(***************************************************************************)
(* The jinja filters.  Each is a function called by the template engine;   *)
(* a call is one step from pc = "call" to pc = "returned".                 *)
(***************************************************************************)
IdleRun ==
    /\ args = [force |-> FALSE, output |-> NoPath, notebook |-> "nb1.ipynb",
               working_directory |-> None, conf_path |-> None]
    /\ defaultConf = FALSE
    /\ fs = [dirs |-> {}, files |-> [p \in Paths |-> Absent]]
    /\ fs0 = fs
    /\ work_directory = None
    /\ conf = [path |-> None, ignore_keys |-> <<>>]
    /\ output = NoPath
    /\ exc = NoException
    /\ script = EmptyScript
    /\ exportCalls = 0
    /\ convertCalls = 0
    /\ convError = "none"
    /\ fault = FALSE

\* ---- filter_no_effect ----------------------------------------------------
Chars == {"#", "n", "x"}
Contents == SeqsUpTo(Chars, MaxLen)

\* mlvtool.conf.conf.DEFAULT_IGNORE_KEY
DEFAULT_IGNORE_KEY == <<"#", "n">>

KeyChoices == {<<>>, <<"x">>, <<"#", "n">>, <<"n", "x">>}

\* A resource dict either has no 'ignore_keys' entry or maps it to a list.
Resources ==
    {[has_ignore_keys |-> FALSE, ignore_keys |-> <<>>]}
    \cup {[has_ignore_keys |-> TRUE, ignore_keys |-> ks] : ks \in SeqsUpTo(KeyChoices, MaxKeys)}

\* Python's `keyword in cell_content` on strings: substring containment
\* ('' is contained in every string).
str_contains(keyword, content) ==
    \E i \in 0..(Len(content) - Len(keyword)) :
        SubSeq(content, i + 1, i + Len(keyword)) = keyword

\* resource.get('ignore_keys', [DEFAULT_IGNORE_KEY])
resource_get_ignore_keys(resource) ==
    IF resource.has_ignore_keys THEN resource.ignore_keys ELSE <<DEFAULT_IGNORE_KEY>>

RECURSIVE filter_loop(_, _, _)
filter_loop(keys, i, cell_content) ==
    IF i > Len(keys) THEN cell_content
    ELSE IF str_contains(keys[i], cell_content) THEN <<>>
    ELSE filter_loop(keys, i + 1, cell_content)

filter_first_key_only(cell_content, resource) ==
    LET keys == resource_get_ignore_keys(resource)
    IN  IF keys # <<>> /\ str_contains(keys[1], cell_content) THEN <<>> ELSE cell_content

filter_no_effect(cell_content, resource) ==
    filter_loop(resource_get_ignore_keys(resource), 1, cell_content)

\* ---- docstrings ----------------------------------------------------------
\* A docstring is a sequence of tokens: a piece of text, or a parameter
\* directive (':param type name: ...') carrying the name and the optional type.
Text == [kind |-> "text", arg_name |-> "", type_name |-> None]
Param(a, t) == [kind |-> "param", arg_name |-> a, type_name |-> t]
Quotes == [kind |-> "quotes", arg_name |-> "", type_name |-> None]
NL == [kind |-> "nl", arg_name |-> "", type_name |-> None]

DocTokens == {Text} \cup {Param(a, t) : a \in {"a", "b"}, t \in {None, "int"}}
Docstrings == SeqsUpTo(DocTokens, MaxDoc)

\* A cell content is its leading docstring and the code after it.
CellContent(d) == [docstring |-> d, code |-> "code"]

\* mlvtool.docstring_helpers.extract.extract_docstring
extract_docstring(cell_content) == cell_content.docstring

\* mlvtool.docstring_helpers.parse.parse_docstring
parse_docstring(docstring_str) ==
    [params |-> SelectSeq(docstring_str, LAMBDA tok : tok.kind = "param")]

DocstringWrapper(docstring, params) == [docstring |-> docstring, params |-> params]

\* '{}{}'.format(p.arg_name, '' if not p.type_name else f': {p.type_name}')
format_param(p) ==
    <<p.arg_name>> \o (IF Falsy(p.type_name) THEN <<>> ELSE <<": ", p.type_name>>)

\* sep.join(items)
RECURSIVE str_join(_, _)
str_join(sep, items) ==
    IF items = <<>> THEN <<>>
    ELSE IF Len(items) = 1 THEN items[1]
    ELSE str_join(sep, SubSeq(items, 1, Len(items) - 1)) \o sep \o items[Len(items)]

get_param_without_types(docstring_str) ==
    LET docstring_data == parse_docstring(docstring_str)
        params == [i \in 1..Len(docstring_data.params) |-> <<docstring_data.params[i].arg_name>>]
    IN  str_join(<<", ">>, params)

get_param_as_python_method_format(docstring_str) ==
    LET docstring_data == parse_docstring(docstring_str)
        params == [i \in 1..Len(docstring_data.params) |-> format_param(docstring_data.params[i])]
    IN  str_join(<<", ">>, params)

extract_docstring_and_param(cell_content) ==
    LET docstring == extract_docstring(cell_content)
        params == get_param_as_python_method_format(docstring)
    IN  DocstringWrapper(<<Quotes, NL>> \o docstring \o <<NL, Quotes>>, params)

\* ---- handle_params -------------------------------------------------------
CellTypes == {"code", "markdown"}
CellDocs == {<<>>, <<Text>>, <<Text, Param("a", "int")>>}
Cells == [cell_type : CellTypes, source : {CellContent(d) : d \in CellDocs}]
CellLists == SeqsUpTo(Cells, MaxCells)

every_cell_is_code(cell) == TRUE

is_code_cell(cell) == cell.cell_type = "code"

\* next(cell for cell in cells if is_code_cell(cell)): the index of the cell
\* found, 0 for StopIteration
first_code_cell_index(cs) ==
    IF \E i \in 1..Len(cs) : is_code_cell(cs[i])
    THEN CHOOSE i \in 1..Len(cs) :
            /\ is_code_cell(cs[i])
            /\ \A j \in 1..(i - 1) : ~is_code_cell(cs[j])
    ELSE 0

RemoveAt(s, i) == SubSeq(s, 1, i - 1) \o SubSeq(s, i + 1, Len(s))

list_remove_nothing(s, x) == s

\* list.remove(x): removes the first element equal to x
list_remove(s, x) ==
    LET i == CHOOSE k \in 1..Len(s) : s[k] = x /\ \A j \in 1..(k - 1) : s[j] # x
    IN  RemoveAt(s, i)

\* handle_params(cells): <<the returned value, the cell list afterwards>>
handle_params(cs) ==
    LET idx == first_code_cell_index(cs)
    IN  IF idx = 0
        THEN <<DocstringWrapper(<<>>, <<>>), cs>>
        ELSE LET first_code_cell == cs[idx]
                 docstring_wrapper == extract_docstring_and_param(first_code_cell.source)
             IN  IF docstring_wrapper.params # <<>>
                 THEN <<docstring_wrapper, list_remove(cs, first_code_cell)>>
                 ELSE <<docstring_wrapper, cs>>

InitFilters ==
    /\ IdleRun
    /\ pc = "call"
    /\ ret = <<>>
    /\ \/ /\ fn = "filter_no_effect"
          /\ call \in [cell_content : Contents, resource : Resources]
          /\ cells = <<>>
       \/ /\ fn = "extract_docstring_and_param"
          /\ call \in [cell_content : {CellContent(d) : d \in Docstrings}]
          /\ cells = <<>>
       \/ /\ fn = "handle_params"
          /\ cells \in CellLists
          /\ call = [cells |-> cells]

Call_filter_no_effect ==
    /\ pc = "call"
    /\ fn = "filter_no_effect"
    /\ ret' = filter_no_effect(call.cell_content, call.resource)
    /\ pc' = "returned"
    /\ UNCHANGED <<runVars, fn, call, cells>>

Call_extract_docstring_and_param ==
    /\ pc = "call"
    /\ fn = "extract_docstring_and_param"
    /\ ret' = extract_docstring_and_param(call.cell_content)
    /\ pc' = "returned"
    /\ UNCHANGED <<runVars, fn, call, cells>>

Call_handle_params ==
    /\ pc = "call"
    /\ fn = "handle_params"
    /\ LET r == handle_params(cells)
       IN  /\ ret' = r[1]
           /\ cells' = r[2]
    /\ pc' = "returned"
    /\ UNCHANGED <<runVars, fn, call>>

NextFilters ==
    \/ Call_filter_no_effect
    \/ Call_extract_docstring_and_param
    \/ Call_handle_params

SpecFilters == InitFilters /\ [][NextFilters]_vars

(***************************************************************************)
(* Properties of IPynbToPython.run and export (checked under Spec).        *)
(***************************************************************************)
Terminated == pc \in {"done", "raised"}

\* C1: when the loaded configuration has no path and --output is not given,
\* run raises MlVToolException before export is invoked: nothing is converted
\* and the file system is left as it was, whatever --force,
\* --working-directory and --notebook are.
C1_MissingOutputRaises ==
    (/\ pc \notin {"load_conf", "check_output_param"}
     /\ Falsy(conf.path)
     /\ args.output = NoPath)
    => /\ pc = "raised"
       /\ exc = MlVToolException("output mandatory")
       /\ exportCalls = 0
       /\ convertCalls = 0
       /\ fs = fs0

C1_Witness ==
    /\ pc = "raised"
    /\ Falsy(conf.path)
    /\ args.output = NoPath
    /\ args.force
    /\ args.working_directory = "wd"
    /\ args.notebook = "nb2.ipynb"
    /\ exists(fs, get_script_output_path(args.notebook, conf))

\* C2: when --force is not set and the resolved output path already exists,
\* run raises MlVToolException before export is invoked and the file system
\* (the existing output file included) is left unchanged.
C2_ExistingOutputRaises ==
    (/\ ~args.force
     /\ pc \notin {"load_conf", "check_output_param", "resolve_output", "check_exists"}
     /\ exists(fs0, output))
    => /\ pc = "raised"
       /\ exc = MlVToolException("output exists")
       /\ exportCalls = 0
       /\ convertCalls = 0
       /\ fs = fs0
       /\ fs.files[output] = OldContent

C2_Witness ==
    /\ pc = "raised"
    /\ ~args.force
    /\ args.output = NoPath
    /\ output = get_script_output_path(args.notebook, conf)
    /\ exists(fs0, output)

\* C3: when the notebook conversion fails with an exception, export raises
\* MlVToolException wrapping that exception, the conversion was attempted
\* once, and no directory or file was created or modified.
C3_ConversionFailureWrapped ==
    convError # "none"
    => /\ pc = "raised"
       /\ exc = MlVToolException(convError)
       /\ convertCalls = 1
       /\ exportCalls = 1
       /\ fs = fs0

C3_Witness ==
    /\ convError = "FilterError"
    /\ pc = "raised"
    /\ args.force
    /\ exists(fs0, output)

\* C4: the only exception type a caller of export or run can observe is
\* MlVToolException, also when the last step (creating the output directory,
\* opening or writing the output file) fails.
C4_OnlyMlVToolException ==
    pc = "raised" => exc.type = "MlVToolException"

\* C5: with --force, the existence of the output path never causes an error,
\* and when the output-path precondition holds, the conversion yields a
\* non-empty script and no I/O call is failed by the environment, export is
\* invoked exactly once and the output file then holds exactly the script.
C5_ForceOverwrites ==
    args.force
    => /\ exc # MlVToolException("output exists")
       /\ (/\ Terminated
           /\ convertCalls = 1
           /\ convError = "none"
           /\ ~ScriptIsEmpty(script)
           /\ ~fault)
          => /\ pc = "done"
             /\ exportCalls = 1
             /\ fs.files[output] = script

\* C9: when the conversion succeeds with an empty script, export returns
\* without raising and leaves the file system unchanged; after export a file
\* exists at the output path only if it existed before or the script was
\* non-empty.
C9_EmptyScriptWritesNothing ==
    /\ (/\ convertCalls = 1
        /\ convError = "none"
        /\ script = EmptyScript
        /\ pc # "check_empty")
       => /\ pc \in {"log_done", "done"}
          /\ exc = NoException
          /\ fs = fs0
    /\ (/\ pc \in {"log_done", "done", "raised"}
        /\ exportCalls = 1
        /\ exists(fs, output))
       => (exists(fs0, output) \/ (convError = "none" /\ script # EmptyScript))

C9_Witness ==
    /\ pc = "done"
    /\ convertCalls = 1
    /\ script = EmptyScript
    /\ ~exists(fs, output)
    /\ dirname(output) \notin fs.dirs

(***************************************************************************)
(* Properties of the filters (checked under SpecFilters).                  *)
(***************************************************************************)
Returned(f) == fn = f /\ pc = "returned"

SomeKeyOccurs ==
    LET keys == IF call.resource.has_ignore_keys THEN call.resource.ignore_keys
                ELSE <<DEFAULT_IGNORE_KEY>>
    IN  \E i \in 1..Len(keys) : str_contains(keys[i], call.cell_content)

\* C7 (as stated): the result of filter_no_effect is the empty string if and
\* only if at least one ignore key occurs in the cell content, and the cell
\* content unchanged in every other case.
C7_EmptyIffKeyOccurs ==
    Returned("filter_no_effect")
    => /\ (ret = <<>>) <=> SomeKeyOccurs
       /\ ~SomeKeyOccurs => ret = call.cell_content

\* C7 (amended): the result of filter_no_effect is the empty string when at
\* least one ignore key occurs in the cell content and the cell content
\* unchanged otherwise; for a non-empty cell content the result is empty
\* exactly when a key occurs.
C7_EmptyIfKeyOccursElseUnchanged ==
    Returned("filter_no_effect")
    => /\ SomeKeyOccurs => ret = <<>>
       /\ ~SomeKeyOccurs => ret = call.cell_content
       /\ call.cell_content # <<>> => ((ret = <<>>) <=> SomeKeyOccurs)

C7_Witness ==
    /\ Returned("filter_no_effect")
    /\ call.resource.has_ignore_keys
    /\ Len(call.resource.ignore_keys) = 2
    /\ ~str_contains(call.resource.ignore_keys[1], call.cell_content)
    /\ str_contains(call.resource.ignore_keys[2], call.cell_content)
    /\ Len(call.cell_content) = 3
    /\ ret = <<>>

DeclaredParams(doc) == SelectSeq(doc, LAMBDA tok : tok.kind = "param")

Rendered(p) ==
    IF p.type_name # "" THEN <<p.arg_name, ": ", p.type_name>> ELSE <<p.arg_name>>

RECURSIVE JoinedInOrder(_)
JoinedInOrder(ps) ==
    IF ps = <<>> THEN <<>>
    ELSE IF Len(ps) = 1 THEN Rendered(ps[1])
    ELSE Rendered(ps[1]) \o <<", ">> \o JoinedInOrder(Tail(ps))

\* C8: the formatted parameters are the docstring's parameters in order,
\* joined by ', ', each 'name: type' when it has a type and 'name' otherwise;
\* they are the empty string exactly when the docstring declares no
\* parameter; extract_docstring_and_param returns them with the docstring
\* between triple-quote lines.
C8_ParamsFormatted ==
    Returned("extract_docstring_and_param")
    => LET doc == call.cell_content.docstring
       IN  /\ ret.params = JoinedInOrder(DeclaredParams(doc))
           /\ (ret.params = <<>>) <=> (DeclaredParams(doc) = <<>>)
           /\ ret.docstring = <<Quotes, NL>> \o doc \o <<NL, Quotes>>

C8_Witness ==
    /\ Returned("extract_docstring_and_param")
    /\ call.cell_content.docstring = <<Param("b", "int"), Text, Param("a", None)>>
    /\ ret.params = <<"b", ": ", "int", ", ", "a">>

HasCodeCell(cs) == \E i \in 1..Len(cs) : cs[i].cell_type = "code"

FirstCode(cs) ==
    CHOOSE i \in 1..Len(cs) :
        cs[i].cell_type = "code" /\ \A j \in 1..(i - 1) : cs[j].cell_type # "code"

C10_HandleParamsFrame ==
    Returned("handle_params")
    => /\ Len(cells) >= Len(call.cells) - 1
       /\ \/ cells = call.cells
          \/ /\ HasCodeCell(call.cells)
             /\ cells = RemoveAt(call.cells, FirstCode(call.cells))
       /\ ~HasCodeCell(call.cells)
          => /\ cells = call.cells
             /\ ret = DocstringWrapper(<<>>, <<>>)

C10_Witness ==
    /\ Returned("handle_params")
    /\ Len(call.cells) = 3
    /\ ~HasCodeCell(call.cells)
    /\ \E i \in 1..3 : DeclaredParams(call.cells[i].source.docstring) # <<>>
    /\ cells = call.cells

====
